---- MODULE Spec2Model ----
(***************************************************************************)
(* Draft Order service (src/server.js): the /create-draft-order route with *)
(* its cache, idempotency store, retrying upstream client, batch price     *)
(* resolver, pricing engine and line item builder.                         *)
(*                                                                         *)
(* Conventions.                                                            *)
(*  - Text the code inspects (error messages tested by a regular           *)
(*    expression, attribute keys, grades) is a sequence of one-character   *)
(*    strings; text it only passes on is a TLA+ string.                    *)
(*  - An optional JavaScript value (undefined / null / absent) is a        *)
(*    sequence of length 0, a present one a sequence of length 1.          *)
(*  - Money is an integer number of mills (1/1000 of the currency unit,    *)
(*    a tenth of a cent), so that a client price with a fraction of a cent *)
(*    and the rounding done by toFixed(2) can both be written down.        *)
(***************************************************************************)
EXTENDS Integers, Sequences, FiniteSets, TLC

(***************************************************************************)
(* Text helpers                                                            *)
(***************************************************************************)
UpperAlpha == <<"A","B","C","D","E","F","G","H","I","J","K","L","M",
                "N","O","P","Q","R","S","T","U","V","W","X","Y","Z">>
LowerAlpha == <<"a","b","c","d","e","f","g","h","i","j","k","l","m",
                "n","o","p","q","r","s","t","u","v","w","x","y","z">>
Digits == <<"0","1","2","3","4","5","6","7","8","9">>

AlphaIndex(alpha, c) == CHOOSE i \in 1..26 : alpha[i] = c
IsIn(alpha, c) == \E i \in 1..Len(alpha) : alpha[i] = c

\* String.prototype.toLowerCase / toUpperCase, one character
LowerChar(c) == IF IsIn(UpperAlpha, c) THEN LowerAlpha[AlphaIndex(UpperAlpha, c)] ELSE c
UpperChar(c) == IF IsIn(LowerAlpha, c) THEN UpperAlpha[AlphaIndex(LowerAlpha, c)] ELSE c
ToLowerCase(s) == [i \in 1..Len(s) |-> LowerChar(s[i])]
ToUpperCase(s) == [i \in 1..Len(s) |-> UpperChar(s[i])]
IsDigit(c) == IsIn(Digits, c)

\* A three-digit HTTP status as text, as `${r.status}` prints it
StatusText(n) == << Digits[(n \div 100) + 1], Digits[((n \div 10) % 10) + 1], Digits[(n % 10) + 1] >>

\* An optional value
Absent == << >>
Some(v) == << v >>
IsPresent(o) == Len(o) > 0

(***************************************************************************)
(* Pricing engine                                                          *)
(***************************************************************************)
\* F_MULTIPLIER = 2.06, in hundredths
F_MULTIPLIER == 206

\* The table with the upcharges of C and D exchanged
GRADE_UPCHARGE_Swapped == [A |-> 0, B |-> 0, C |-> 32, D |-> 8, E |-> 63, F |-> 106]

\* GRADE_UPCHARGE, in hundredths; a grade is a one-character string
GRADE_UPCHARGE == [A |-> 0, B |-> 0, C |-> 8, D |-> 32, E |-> 63, F |-> 106]

\* GRADE_UPCHARGE[g] ?? 0
UpchargeOf(g) == IF g \in DOMAIN GRADE_UPCHARGE THEN GRADE_UPCHARGE[g] ELSE 0

\* `if (cording) unit *= 1.10`, in tenths
CordingFactor(cording) == IF cording THEN 11 ELSE 10

\* Math.round(num / den): the nearest integer, a half rounded towards +infinity
MathRound(num, den) == IF 2 * (num % den) >= den THEN (num \div den) + 1 ELSE num \div den

\* The price without the division by F_MULTIPLIER
computeUnitPriceNoDivide(fPrice, grade, cording) ==
    LET g == UpperChar(grade)
        num == fPrice * (100 + UpchargeOf(g)) * CordingFactor(cording)
    IN  10 * MathRound(num, 10000)

\* Math.round(unit * 100) / 100 of fPrice / 2.06 * (1 + upcharge) [* 1.10];
\* fPrice and the result in mills
computeUnitPriceFromF(fPrice, grade, cording) ==
    LET g == UpperChar(grade)
        num == fPrice * (100 + UpchargeOf(g)) * CordingFactor(cording)
        den == 100 * F_MULTIPLIER
    IN  10 * MathRound(num, den)

\* Number(x.toFixed(2)): x rounded to whole cents (x in mills)
ToFixed2(x) == 10 * MathRound(x, 10)

(***************************************************************************)
(* Line normalisation and the line item builder                            *)
(***************************************************************************)
\* A reference is a sequence of text pieces: a bare id is <<"7">>, a global
\* id is <<"gid://", "shopify/ProductVariant/", "7">>
GidScheme == "gid://"
GidPath == "shopify/ProductVariant/"
StartsWithGid(v) == Len(v) > 0 /\ v[1] = GidScheme

\* String(it.variantId).startsWith('gid://') ? ... : `gid://shopify/ProductVariant/${it.variantId}`
NormalizeGid(v) == IF StartsWithGid(v) THEN v ELSE <<GidScheme, GidPath>> \o v

\* parseInt(q, 10) of a number held in tenths: the integer part, towards zero
ParseInt(q10) == IF q10 >= 0 THEN q10 \div 10 ELSE -((-q10) \div 10)

\* Math.max(1, parseInt(it.quantity, 10) || 1)
NormalizeQuantity(q) ==
    LET n == IF IsPresent(q) THEN ParseInt(q[1]) ELSE 0
        m == IF n = 0 THEN 1 ELSE n
    IN  IF m > 1 THEN m ELSE 1

\* String(it.grade || 'A').toUpperCase()
NormalizeGrade(g) == IF IsPresent(g) /\ g[1] # "" THEN UpperChar(g[1]) ELSE "A"

\* lines = items.map(it => ({ ... }))
NormalizeLine(it) ==
    [ gid            |-> NormalizeGid(it.variantId),
      quantity       |-> NormalizeQuantity(it.quantity),
      grade          |-> NormalizeGrade(it.grade),
      cording        |-> it.cording,
      fabricName     |-> IF IsPresent(it.fabricName) THEN it.fabricName[1] ELSE "",
      properties     |-> IF IsPresent(it.properties) THEN it.properties[1] ELSE << >>,
      unitPriceCents |-> it.unitPriceCents ]

K_Fabric == <<"F","a","b","r","i","c">>
K_Grade == <<"G","r","a","d","e">>
K_Cording == <<"C","o","r","d","i","n","g">>
K_SelectedFabricName == <<"S","e","l","e","c","t","e","d"," ","F","a","b","r","i","c"," ","N","a","m","e">>

\* The key test without the i flag
FabricKeyReCaseSensitive(key) == key \in {K_Fabric, K_SelectedFabricName}

\* /^(Fabric|Selected Fabric Name)$/i.test(key)
FabricKeyRe(key) == ToLowerCase(key) \in {ToLowerCase(K_Fabric), ToLowerCase(K_SelectedFabricName)}

\* !!l.fabricName || l.properties.some(p => /^(Fabric|Selected Fabric Name)$/i.test(p?.key || ''))
looksFabric(l) ==
    \/ l.fabricName # ""
    \/ \E i \in 1..Len(l.properties) : FabricKeyRe(l.properties[i].key)

\* priceMap[l.gid] ?? 0
PriceOf(priceMap, gid) == IF gid \in DOMAIN priceMap THEN priceMap[gid] ELSE 0

\* The price the line is sold at. l.unitPriceCents is held in tenths of a cent,
\* which is the same number of mills: the division by 100 changes the unit only.
UnitOf(l, fPrice) ==
    IF looksFabric(l) /\ IsPresent(l.unitPriceCents) /\ l.unitPriceCents[1] > 0
    THEN l.unitPriceCents[1]
    ELSE computeUnitPriceFromF(fPrice, l.grade, l.cording)

customAttributes(l) ==
    << [key |-> K_Fabric,  value |-> l.fabricName],
       [key |-> K_Grade,   value |-> l.grade],
       [key |-> K_Cording, value |-> IF l.cording THEN "Yes" ELSE "No"] >> \o l.properties

\* The discount branch giving the price as the discount
DiscountLineOfUnit(l, fPrice, unit) ==
    [ variantId        |-> l.gid,
      quantity         |-> l.quantity,
      appliedDiscount  |-> IF fPrice - unit > 0
                           THEN Some([title |-> "DISCOUNT", valueType |-> "FIXED_AMOUNT",
                                      value |-> ToFixed2(unit)])
                           ELSE Absent,
      customAttributes |-> customAttributes(l) ]

\* if (unit <= fPrice) { ... appliedDiscount ... }
DiscountLine(l, fPrice, unit) ==
    [ variantId        |-> l.gid,
      quantity         |-> l.quantity,
      appliedDiscount  |-> IF fPrice - unit > 0
                           THEN Some([title |-> "DISCOUNT", valueType |-> "FIXED_AMOUNT",
                                      value |-> ToFixed2(fPrice - unit)])
                           ELSE Absent,
      customAttributes |-> customAttributes(l) ]

\* The custom branch keeping the catalog reference
CustomLineWithVariant(l, unit) ==
    [ variantId         |-> l.gid,
      title             |-> IF l.fabricName # "" THEN l.fabricName ELSE "Custom item",
      custom            |-> TRUE,
      quantity          |-> l.quantity,
      originalUnitPrice |-> ToFixed2(unit),
      customAttributes  |-> customAttributes(l) ]

\* return { title, custom: true, ... originalUnitPrice ... }
CustomLine(l, unit) ==
    [ title             |-> IF l.fabricName # "" THEN l.fabricName ELSE "Custom item",
      custom            |-> TRUE,
      quantity          |-> l.quantity,
      originalUnitPrice |-> ToFixed2(unit),
      customAttributes  |-> customAttributes(l) ]

\* lineItems = lines.map(l => { ... })
BuildLineItem(l, priceMap) ==
    LET fPrice == PriceOf(priceMap, l.gid)
        unit   == UnitOf(l, fPrice)
    IN  IF unit <= fPrice THEN DiscountLine(l, fPrice, unit) ELSE CustomLine(l, unit)


(***************************************************************************)
(* Upstream client with retry: withBackoff and adminGQL                    *)
(***************************************************************************)
\* /rate|429|5\d\d/i.test(msg)
TransientRe(msg) ==
    \E i \in 1..Len(msg) :
        \/ /\ i + 3 <= Len(msg)
           /\ <<LowerChar(msg[i]), LowerChar(msg[i+1]), LowerChar(msg[i+2]), LowerChar(msg[i+3])>>
                = <<"r","a","t","e">>
        \/ /\ i + 2 <= Len(msg)
           /\ <<msg[i], msg[i+1], msg[i+2]>> = <<"4","2","9">>
        \/ /\ i + 2 <= Len(msg)
           /\ msg[i] = "5" /\ IsDigit(msg[i+1]) /\ IsDigit(msg[i+2])

\* withBackoff's default { tries = 3 }
Tries == 3

\* An Error: its message and its retryable property (undefined is FALSE)
Err(message, retryable) == [message |-> message, retryable |-> retryable]

\* The catch of withBackoff: break unless the message matches or e.retryable
BreaksLoop(e) == ~TransientRe(e.message) /\ ~e.retryable

M_429RateLimited == <<"4","2","9"," ","r","a","t","e"," ","l","i","m","i","t","e","d">>

\* new Error('429 rate limited'), retryable = true
Err429 == Err(M_429RateLimited, TRUE)

\* r.ok of node-fetch
IsOk(status) == 200 <= status /\ status <= 299

\* new Error(`${r.status} ${r.statusText}`), retryable = r.status >= 500
ErrStatus(status, statusText) == Err(StatusText(status) \o <<" ">> \o statusText, status >= 500)

\* new Error(j.errors[0].message)
ErrGraphQL(errors) == Err(errors[1], FALSE)

(***************************************************************************)
(* Cache and idempotency store                                             *)
(***************************************************************************)
\* The literal TTLs of the route and of getVariantPricesBatch, in seconds
IDEM_TTL_SEC == 600
PRICE_TTL_SEC == 600

VKey(gid) == <<"vprice:">> \o gid
IdemKey(key) == <<"idem:", key>>

\* memGet without the test of exp
MemReadNoExpiry(cache, key, t) ==
    IF key \in DOMAIN cache THEN Some(cache[key].value) ELSE Absent

\* memGet: an entry that is missing or has exp < Date.now() reads as null; the
\* map itself is left as it is
MemRead(cache, key, t) ==
    IF key \in DOMAIN cache /\ ~(cache[key].exp < t) THEN Some(cache[key].value) ELSE Absent

\* memCache.set(key, { value, exp: Date.now() + ttl })
MemWrite(cache, key, value, ttl, t) == (key :> [value |-> value, exp |-> t + ttl]) @@ cache

\* redis.get: null once the key's EX has run out
RedisRead(store, key, t) ==
    IF key \in DOMAIN store /\ t < store[key].exp THEN Some(store[key].value) ELSE Absent

\* redis.set(key, JSON.stringify(value), { EX: ttlSec })
RedisWrite(store, key, value, ttl, t) == (key :> [value |-> value, exp |-> t + ttl]) @@ store


(***************************************************************************)
(* State                                                                   *)
(***************************************************************************)
VARIABLES
    redis,       \* TRUE when REDIS_URL is set and the redis client is connected
    now,         \* Date.now(), in seconds
    memCache,    \* the process-local Map: key -> [value, exp]
    redisStore,  \* the keys of the redis server: key -> [value, exp]
    debugOnce,   \* __debugOnce
    req,         \* one record per request being handled: the handler's locals
    served,      \* number of requests received so far
    drafts,      \* number of draft orders the upstream has created
    cachedAt,    \* history: reference -> time of the last cacheSet for it
    hist,        \* history: idempotency key -> the last idemSet under it (body, result, time)
    lb           \* the line builder applied to one line on its own (SpecLines)

vars == << redis, now, memCache, redisStore, debugOnce, req, served, drafts, cachedAt, hist, lb >>

(***************************************************************************)
(* Bounds and input sets                                                   *)
(***************************************************************************)
MaxRequests == 3
TickSec == 400
MaxNow == 800

K_Color == <<"C","o","l","o","r">>

It1 == [ variantId |-> <<"1">>, quantity |-> Some(20), grade |-> Some("b"), cording |-> TRUE,
         fabricName |-> Some("Canvas Navy"), properties |-> Absent, unitPriceCents |-> Absent ]
It1g == [ variantId |-> <<GidScheme, GidPath, "1">>, quantity |-> Absent, grade |-> Some("F"),
          cording |-> TRUE, fabricName |-> Absent,
          properties |-> Some(<< [key |-> K_Color, value |-> "Navy"] >>), unitPriceCents |-> Absent ]
It2 == [ variantId |-> <<"2">>, quantity |-> Some(10), grade |-> Absent, cording |-> FALSE,
         fabricName |-> Some("Linen"), properties |-> Absent, unitPriceCents |-> Some(123450) ]

\* Request bodies: items, note, tags, idempotencyKey (each may be absent), and the
\* prevDraftId a client may send, which the destructuring does not take
Body(items, note, tags, key) ==
    [items |-> items, note |-> note, tags |-> tags, idempotencyKey |-> key, prevDraftId |-> Absent]
WithPrevDraft(body, id) == [body EXCEPT !.prevDraftId = Some(id)]
Bodies ==
    { Body(Absent, Absent, Absent, Some("k1")),
      Body(Some(<< >>), Absent, Absent, Absent),
      Body(Some(<<It1>>), Absent, Absent, Absent),
      Body(Some(<<It1, It1g>>), Some("rush"), Some(<<"checkout">>), Some("k1")),
      Body(Some(<<It1, It2, It1g>>), Absent, Absent, Some("k1")) }

\* What the upstream may answer -----------------------------------------
\* price of a variant, in mills
CatalogPrices == {50000, 20000}

T_SocketHangUp == <<"s","o","c","k","e","t"," ","h","a","n","g"," ","u","p">>
T_BadRequest == <<"B","a","d"," ","R","e","q","u","e","s","t">>
T_TooMany == <<"T","o","o"," ","M","a","n","y">>
T_RateExceeded == <<"R","a","t","e"," ","E","x","c","e","e","d","e","d">>
T_Unavailable == <<"U","n","a","v","a","i","l","a","b","l","e">>
T_Throttled == <<"T","h","r","o","t","t","l","e","d">>
T_ApiRate == <<"A","P","I"," ","r","a","t","e"," ","l","i","m","i","t">>
T_Invalid == <<"I","n","v","a","l","i","d">>

\* rejections of fetch itself
TransportMessages == {T_SocketHangUp}
\* status line of a response that is not ok
HttpFailures ==
    { <<429, T_TooMany>>, <<400, T_BadRequest>>, <<403, T_RateExceeded>>, <<503, T_Unavailable>> }
\* j.errors of a response with an ok status
GraphQLErrorLists == { <<T_Throttled>>, <<T_ApiRate, T_Invalid>> }
\* data.draftOrderCreate.userErrors
UserErrorLists == { << >>, <<T_Invalid>> }

M_NoItems == <<"N","o"," ","i","t","e","m","s">>
M_NoInvoiceUrl == <<"N","o"," ","i","n","v","o","i","c","e","U","r","l"," ",
                    "r","e","t","u","r","n","e","d">>
M_VariantNotFound(gid) == <<"V","a","r","i","a","n","t"," ","n","o","t"," ",
                            "f","o","u","n","d",":"," ">> \o gid


(***************************************************************************)
(* The route handler, one action per await                                 *)
(***************************************************************************)
RECURSIVE UniqFrom(_, _)
UniqFrom(s, acc) ==
    IF s = << >> THEN acc
    ELSE UniqFrom(Tail(s), IF \E i \in 1..Len(acc) : acc[i] = Head(s) THEN acc ELSE Append(acc, Head(s)))

\* [...new Set(gids)]: first occurrences, in order
Uniq(s) == UniqFrom(s, << >>)

\* The handler's locals before a request arrives
IdleReq ==
    [ pc |-> "idle", body |-> Body(Absent, Absent, Absent, Absent),
      lines |-> << >>, uniq |-> << >>, idx |-> 0, prices |-> << >>, missing |-> << >>,
      age |-> << >>, call |-> "none", query |-> << >>, i |-> 0, attempts |-> 0,
      all429 |-> TRUE, answer |-> Absent, lastErr |-> Absent, thrown |-> Absent,
      nodes |-> Absent, input |-> Absent, invoiceUrl |-> Absent, setAt |-> 0, res |-> Absent,
      nReads |-> 0, nWrites |-> 0, prior |-> Absent, recorded |-> Absent ]

\* const { items = [], note, tags = [], idempotencyKey } = req.body || {}
ItemsOf(body) == IF IsPresent(body.items) THEN body.items[1] ELSE << >>
TagsOf(body) == IF IsPresent(body.tags) THEN body.tags[1] ELSE << >>
\* if (idempotencyKey)
HasKey(body) == IsPresent(body.idempotencyKey) /\ body.idempotencyKey[1] # ""
KeyOf(body) == body.idempotencyKey[1]

\* res.json({ invoiceUrl }) and res.status(400).json({ error: e.message })
Ok200(url) == [status |-> 200, body |-> [invoiceUrl |-> url]]
Err400(msg) == [status |-> 400, body |-> [error |-> msg]]

\* A catch that answers as if nothing had failed
CaughtSwallowed(q, msg) == [q EXCEPT !.pc = "done", !.res = Some(Ok200(Absent))]

\* catch (e) { res.status(400).json({ error: e.message }) }
Caught(q, msg) == [q EXCEPT !.pc = "done", !.res = Some(Err400(msg))]

\* In-process awaits (idemGet, cacheGet and idemSet without redis) resume in a
\* microtask: no other handler and no timer runs in between.
SyncPcs == {"idemGet", "cacheGet", "idemSet"}
Runnable(r) == redis \/ \A q \in DOMAIN req \ {r} : req[q].pc \notin SyncPcs
Quiescent == redis \/ \A q \in DOMAIN req : req[q].pc \notin SyncPcs

\* idemGet reading the process-local map whatever the backend
idemGetMemOnly(key) == MemRead(memCache, IdemKey(key), now)

\* idemGet(key)
idemGet(key) ==
    IF redis THEN RedisRead(redisStore, IdemKey(key), now) ELSE MemRead(memCache, IdemKey(key), now)

\* cacheGet(key): redis first, the process-local map when redis has no value
cacheGet(key) ==
    IF redis /\ IsPresent(RedisRead(redisStore, key, now))
    THEN RedisRead(redisStore, key, now)
    ELSE MemRead(memCache, key, now)

\* The one mutation the route sends
Mutation == "draftOrderCreate"

\* The input of the draftOrderCreate mutation
WriteInput(body, lineItems) ==
    [ lineItems |-> lineItems,
      note      |-> IF IsPresent(body.note) /\ body.note[1] # "" THEN body.note[1] ELSE "Fabric tool",
      tags      |-> <<"fabric-tool">> \o TagsOf(body) ]

\* Calling adminGQL: the first attempt's fetch is under way
\* (attempts, all429, answer: history of the call's attempts)
NewCall(q, call) == [q EXCEPT !.pc = "fetch", !.call = call, !.i = 0, !.attempts = 0,
                              !.all429 = TRUE, !.answer = Absent, !.lastErr = Absent]

\* fields = missing.map((gid, i) => `v${i}: productVariant(id: "${gid}") { id price }`)
CallRead(q) == [NewCall(q, "read") EXCEPT !.query = q.missing, !.nReads = @ + 1]
CallWrite(q) ==
    LET items == [j \in 1..Len(q.lines) |-> BuildLineItem(q.lines[j], q.prices)]
    IN  [NewCall(q, "write") EXCEPT !.nWrites = @ + 1, !.input = Some(WriteInput(q.body, items))]

\* The early return left out
NoMissesNever(missing) == FALSE

\* if (!missing.length) return prices
NoMisses(missing) == Len(missing) = 0

\* The end of the lookup loop of getVariantPricesBatch
AfterLookups(q) == IF NoMisses(q.missing) THEN CallWrite(q) ELSE CallRead(q)

\* lines = items.map(...), then getVariantPricesBatch(lines.map(l => l.gid)) up to
\* its first cacheGet
StartResolve(q) ==
    LET lines == [j \in 1..Len(ItemsOf(q.body)) |-> NormalizeLine(ItemsOf(q.body)[j])]
    IN  [q EXCEPT !.pc = "cacheGet", !.lines = lines,
                  !.uniq = Uniq([j \in 1..Len(lines) |-> lines[j].gid]), !.idx = 1]

\* A request arrives, and the idempotency check comes before the validation
ReceiveIdemFirst(r, body) ==
    /\ req[r].pc \in {"idle", "done"}
    /\ served < MaxRequests
    /\ Runnable(r)
    /\ served' = served + 1
    /\ debugOnce' = TRUE
    /\ LET q == [IdleReq EXCEPT !.body = body]
       IN  req' = [req EXCEPT ![r] =
                      IF HasKey(body) THEN [q EXCEPT !.pc = "idemGet"]
                      ELSE IF Len(ItemsOf(body)) = 0 THEN Caught(q, M_NoItems)
                      ELSE StartResolve(q)]
    /\ UNCHANGED << redis, now, memCache, redisStore, drafts, cachedAt, hist, lb >>

\* A request arrives: the one-shot debug echo and the validation
Receive(r, body) ==
    /\ req[r].pc \in {"idle", "done"}
    /\ served < MaxRequests
    /\ Runnable(r)
    /\ served' = served + 1
    /\ debugOnce' = TRUE
    /\ LET q == [IdleReq EXCEPT !.body = body]
       IN  req' = [req EXCEPT ![r] =
                      IF Len(ItemsOf(body)) = 0 THEN Caught(q, M_NoItems)
                      ELSE IF HasKey(body) THEN [q EXCEPT !.pc = "idemGet"]
                      ELSE StartResolve(q)]
    /\ UNCHANGED << redis, now, memCache, redisStore, drafts, cachedAt, hist, lb >>

\* The result last recorded under this key, if it was by a request with the same
\* body and less than the TTL ago (history, for the idempotence properties)
PriorOf(body) ==
    LET k == KeyOf(body)
    IN  IF k \in DOMAIN hist /\ hist[k].body = body /\ now - hist[k].at < IDEM_TTL_SEC
        THEN Some(hist[k].res) ELSE Absent

\* The result last recorded under this key less than the TTL ago, whatever the body
\* of the request that recorded it (history)
RecordedFor(body) ==
    LET k == KeyOf(body)
    IN  IF k \in DOMAIN hist /\ now - hist[k].at < IDEM_TTL_SEC THEN Some(hist[k].res) ELSE Absent

\* The idempotency check testing a field the record does not have: `exist?.draftId`
IdemGetChecksDraftId(r) ==
    /\ req[r].pc = "idemGet"
    /\ Runnable(r)
    /\ LET exist == idemGet(KeyOf(req[r].body))
           q == [req[r] EXCEPT !.prior = PriorOf(req[r].body), !.recorded = RecordedFor(req[r].body)]
       IN  req' = [req EXCEPT ![r] =
                      IF IsPresent(exist) /\ "draftId" \in DOMAIN exist[1]
                      THEN [q EXCEPT !.pc = "done", !.res = Some(Ok200(exist[1].invoiceUrl))]
                      ELSE StartResolve(q)]
    /\ UNCHANGED << redis, now, memCache, redisStore, debugOnce, served, drafts, cachedAt, hist, lb >>

\* const exist = await idemGet(idempotencyKey); if (exist?.invoiceUrl) return ...
IdemGet(r) ==
    /\ req[r].pc = "idemGet"
    /\ Runnable(r)
    /\ LET exist == idemGet(KeyOf(req[r].body))
           q == [req[r] EXCEPT !.prior = PriorOf(req[r].body), !.recorded = RecordedFor(req[r].body)]
       IN  req' = [req EXCEPT ![r] =
                      IF IsPresent(exist) /\ IsPresent(exist[1].invoiceUrl)
                      THEN [q EXCEPT !.pc = "done", !.res = Some(Ok200(exist[1].invoiceUrl))]
                      ELSE StartResolve(q)]
    /\ UNCHANGED << redis, now, memCache, redisStore, debugOnce, served, drafts, cachedAt, hist, lb >>

\* Seconds since the last cacheSet for a reference, -1 if there was none (history)
AgeOf(gid) == IF gid \in DOMAIN cachedAt THEN now - cachedAt[gid] ELSE -1

\* One turn of `for (const gid of uniq)`: cached = await cacheGet(`vprice:${gid}`)
CacheGet(r) ==
    /\ req[r].pc = "cacheGet"
    /\ Runnable(r)
    /\ LET q == req[r]
           gid == q.uniq[q.idx]
           cached == cacheGet(VKey(gid))
           q0 == [q EXCEPT !.age = (gid :> AgeOf(gid)) @@ @]
           q1 == IF IsPresent(cached)
                 THEN [q0 EXCEPT !.prices = (gid :> cached[1]) @@ @, !.idx = @ + 1]
                 ELSE [q0 EXCEPT !.missing = Append(@, gid), !.idx = @ + 1]
       IN  req' = [req EXCEPT ![r] = IF q1.idx > Len(q1.uniq) THEN AfterLookups(q1) ELSE q1]
    /\ UNCHANGED << redis, now, memCache, redisStore, debugOnce, served, drafts, cachedAt, hist, lb >>


\* withBackoff: `throw lastErr`, caught by the route
Throw(q) == Caught([q EXCEPT !.thrown = q.lastErr], q.lastErr[1].message)

\* What the upstream answered to an attempt: kind is "transport" (fetch rejected),
\* "http" (a status that is not ok), "graphql" (ok, with errors) or "ok"
Answer(kind, status, errors) == [kind |-> kind, status |-> status, errors |-> errors]

\* An attempt is answered (history: how many were, whether all with 429, the last)
Answered(q, ans) ==
    [q EXCEPT !.attempts = @ + 1, !.all429 = @ /\ ans.status = 429, !.answer = Some(ans)]

\* withBackoff's catch: remember the error, then break or sleep
Fail(q, ans, e) ==
    LET q1 == [Answered(q, ans) EXCEPT !.lastErr = Some(e)]
    IN  IF BreaksLoop(e) THEN Throw(q1) ELSE [q1 EXCEPT !.pc = "backoff"]

\* fetch rejects (no response)
FetchRejects(r, msg) ==
    /\ req[r].pc = "fetch"
    /\ req' = [req EXCEPT ![r] = Fail(req[r], Answer("transport", 0, << >>), Err(msg, FALSE))]
    /\ UNCHANGED << redis, now, memCache, redisStore, debugOnce, served, drafts, cachedAt, hist, lb >>

\* r.status === 429, or !r.ok
FetchHttpError(r, status, statusText) ==
    /\ req[r].pc = "fetch"
    /\ status = 429 \/ ~IsOk(status)
    /\ req' = [req EXCEPT ![r] =
                  Fail(req[r], Answer("http", status, << >>),
                       IF status = 429 THEN Err429 ELSE ErrStatus(status, statusText))]
    /\ UNCHANGED << redis, now, memCache, redisStore, debugOnce, served, drafts, cachedAt, hist, lb >>

\* an ok status whose body has j.errors
FetchGraphQLErrors(r, errors) ==
    /\ req[r].pc = "fetch"
    /\ Len(errors) > 0
    /\ req' = [req EXCEPT ![r] = Fail(req[r], Answer("graphql", 200, errors), ErrGraphQL(errors))]
    /\ UNCHANGED << redis, now, memCache, redisStore, debugOnce, served, drafts, cachedAt, hist, lb >>

\* Backoff with the loop test off by one: `i <= tries`
BackoffOffByOne(r) ==
    /\ req[r].pc = "backoff"
    /\ req' = [req EXCEPT ![r] =
                  IF req[r].i + 1 <= Tries
                  THEN [req[r] EXCEPT !.i = @ + 1, !.pc = "fetch"]
                  ELSE Throw([req[r] EXCEPT !.i = @ + 1])]
    /\ UNCHANGED << redis, now, memCache, redisStore, debugOnce, served, drafts, cachedAt, hist, lb >>

\* await new Promise(r => setTimeout(r, ...)), i++, and the loop test
Backoff(r) ==
    /\ req[r].pc = "backoff"
    /\ req' = [req EXCEPT ![r] =
                  IF req[r].i + 1 < Tries
                  THEN [req[r] EXCEPT !.i = @ + 1, !.pc = "fetch"]
                  ELSE Throw([req[r] EXCEPT !.i = @ + 1])]
    /\ UNCHANGED << redis, now, memCache, redisStore, debugOnce, served, drafts, cachedAt, hist, lb >>

\* Index of the first node the response lacks, or n + 1
FirstAbsent(nodes) ==
    IF \E j \in 1..Len(nodes) : ~IsPresent(nodes[j])
    THEN CHOOSE j \in 1..Len(nodes) : ~IsPresent(nodes[j]) /\ \A k \in 1..(j-1) : IsPresent(nodes[k])
    ELSE Len(nodes) + 1

\* The read answers and the prices are returned, but cacheSet is called for the
\* first miss only
FetchReadOkCachesFirst(r, nodes) ==
    /\ req[r].pc = "fetch" /\ req[r].call = "read"
    /\ Len(nodes) = Len(req[r].missing)
    /\ \A j \in 1..Len(nodes) : IsPresent(nodes[j])
    /\ LET q == [Answered(req[r], Answer("ok", 200, << >>)) EXCEPT !.nodes = Some(nodes)]
           key == VKey(q.missing[1])
           entry == [value |-> nodes[1][1], exp |-> now + PRICE_TTL_SEC]
           got == {q.missing[j] : j \in 1..Len(nodes)}
           idxOf(g) == CHOOSE j \in 1..Len(nodes) : q.missing[j] = g
       IN  /\ memCache' = IF redis THEN memCache ELSE (key :> entry) @@ memCache
           /\ redisStore' = IF redis THEN (key :> entry) @@ redisStore ELSE redisStore
           /\ cachedAt' = [g \in DOMAIN cachedAt \cup got |-> IF g \in got THEN now ELSE cachedAt[g]]
           /\ req' = [req EXCEPT ![r] =
                         CallWrite([q EXCEPT !.prices =
                                  [g \in DOMAIN q.prices \cup got |->
                                      IF g \in got THEN nodes[idxOf(g)][1] ELSE q.prices[g]]])]
    /\ UNCHANGED << redis, now, debugOnce, served, drafts, hist, lb >>

\* cacheSet(`vprice:${gid}`, priceNum, 600) for missing[1..upto], on one store
RECURSIVE SetPrices(_, _, _, _, _)
SetPrices(store, missing, nodes, upto, t) ==
    IF upto = 0 THEN store
    ELSE MemWrite(SetPrices(store, missing, nodes, upto - 1, t),
                  VKey(missing[upto]), nodes[upto][1], PRICE_TTL_SEC, t)
RECURSIVE SetPricesRedis(_, _, _, _, _)
SetPricesRedis(store, missing, nodes, upto, t) ==
    IF upto = 0 THEN store
    ELSE RedisWrite(SetPricesRedis(store, missing, nodes, upto - 1, t),
                    VKey(missing[upto]), nodes[upto][1], PRICE_TTL_SEC, t)

\* if (!node) throw new Error(`Variant not found: ${gid}`), for some node
NotFound(nodes) == FirstAbsent(nodes) <= Len(nodes)

\* cacheSet for the nodes of missing[1..upto] that the response has
RECURSIVE SetPresent(_, _, _, _, _)
SetPresent(store, missing, nodes, upto, t) ==
    IF upto = 0 THEN store
    ELSE IF IsPresent(nodes[upto])
         THEN MemWrite(SetPresent(store, missing, nodes, upto - 1, t),
                       VKey(missing[upto]), nodes[upto][1], PRICE_TTL_SEC, t)
         ELSE SetPresent(store, missing, nodes, upto - 1, t)

\* The read answers, and a node the response lacks is skipped: `if (!node) return`
FetchReadOkSkipsAbsent(r, nodes) ==
    /\ req[r].pc = "fetch" /\ req[r].call = "read"
    /\ Len(nodes) = Len(req[r].missing)
    /\ LET q == [Answered(req[r], Answer("ok", 200, << >>)) EXCEPT !.nodes = Some(nodes)]
           present == {j \in 1..Len(nodes) : IsPresent(nodes[j])}
           got == {q.missing[j] : j \in present}
           idxOf(g) == CHOOSE j \in present : q.missing[j] = g
       IN  /\ memCache' = IF redis THEN memCache
                          ELSE SetPresent(memCache, q.missing, nodes, Len(nodes), now)
           /\ redisStore' = IF redis THEN SetPresent(redisStore, q.missing, nodes, Len(nodes), now)
                            ELSE redisStore
           /\ cachedAt' = [g \in DOMAIN cachedAt \cup got |-> IF g \in got THEN now ELSE cachedAt[g]]
           /\ req' = [req EXCEPT ![r] =
                         CallWrite([q EXCEPT !.prices =
                                  [g \in DOMAIN q.prices \cup got |->
                                      IF g \in got THEN nodes[idxOf(g)][1] ELSE q.prices[g]]])]
    /\ UNCHANGED << redis, now, debugOnce, served, drafts, hist, lb >>

\* The read of getVariantPricesBatch answers: missing.forEach(...), then the line
\* items are built and the mutation is sent
FetchReadOk(r, nodes) ==
    /\ req[r].pc = "fetch" /\ req[r].call = "read"
    /\ Len(nodes) = Len(req[r].missing)
    /\ LET q == [Answered(req[r], Answer("ok", 200, << >>)) EXCEPT !.nodes = Some(nodes)]
           j0 == FirstAbsent(nodes)
           done == IF NotFound(nodes) THEN j0 - 1 ELSE Len(nodes)
           got == {q.missing[j] : j \in 1..done}
           idxOf(g) == CHOOSE j \in 1..done : q.missing[j] = g
       IN  /\ memCache' = IF redis THEN memCache
                          ELSE SetPrices(memCache, q.missing, nodes, done, now)
           /\ redisStore' = IF redis THEN SetPricesRedis(redisStore, q.missing, nodes, done, now)
                            ELSE redisStore
           /\ cachedAt' = [g \in DOMAIN cachedAt \cup got |-> IF g \in got THEN now ELSE cachedAt[g]]
           /\ req' = [req EXCEPT ![r] =
                         IF NotFound(nodes) THEN Caught(q, M_VariantNotFound(q.missing[j0]))
                         ELSE CallWrite([q EXCEPT !.prices =
                                  [g \in DOMAIN q.prices \cup got |->
                                      IF g \in got THEN nodes[idxOf(g)][1] ELSE q.prices[g]]])]
    /\ UNCHANGED << redis, now, debugOnce, served, drafts, hist, lb >>

\* idemSet(key, { invoiceUrl }, 600)
IdemRecord(url) == [invoiceUrl |-> url]

\* The mutation answers, and idemSet is called before userErrors and invoiceUrl
\* are looked at
FetchWriteOkRecordsFirst(r, userErrors, hasUrl) ==
    /\ req[r].pc = "fetch" /\ req[r].call = "write"
    /\ LET q == Answered(req[r], Answer("ok", 200, << >>))
           created == Len(userErrors) = 0
           invoiceUrl == IF created /\ hasUrl THEN Some(drafts + 1) ELSE Absent
           recorded == HasKey(q.body)
           key == IdemKey(KeyOf(q.body))
       IN  /\ drafts' = IF created THEN drafts + 1 ELSE drafts
           /\ memCache' = IF recorded /\ ~redis
                          THEN MemWrite(memCache, key, IdemRecord(invoiceUrl), IDEM_TTL_SEC, now)
                          ELSE memCache
           /\ redisStore' = IF recorded /\ redis
                            THEN RedisWrite(redisStore, key, IdemRecord(invoiceUrl), IDEM_TTL_SEC, now)
                            ELSE redisStore
           /\ req' = [req EXCEPT ![r] =
                         IF ~created THEN Caught(q, userErrors[1])
                         ELSE IF ~IsPresent(invoiceUrl) THEN Caught(q, M_NoInvoiceUrl)
                         ELSE IF HasKey(q.body)
                              THEN [q EXCEPT !.pc = "idemSet", !.invoiceUrl = invoiceUrl, !.setAt = now]
                              ELSE [q EXCEPT !.pc = "done", !.invoiceUrl = invoiceUrl,
                                             !.res = Some(Ok200(invoiceUrl))]]
           /\ hist' = IF created /\ hasUrl /\ recorded
                      THEN (KeyOf(q.body) :> [body |-> q.body, res |-> Ok200(invoiceUrl), at |-> now]) @@ hist
                      ELSE hist
    /\ UNCHANGED << redis, now, debugOnce, served, cachedAt, lb >>

\* The mutation answers: userErrors, invoiceUrl, idemSet, response
FetchWriteOk(r, userErrors, hasUrl) ==
    /\ req[r].pc = "fetch" /\ req[r].call = "write"
    /\ LET q == Answered(req[r], Answer("ok", 200, << >>))
           created == Len(userErrors) = 0
           invoiceUrl == IF created /\ hasUrl THEN Some(drafts + 1) ELSE Absent
           recorded == created /\ hasUrl /\ HasKey(q.body)
           key == IdemKey(KeyOf(q.body))
       IN  /\ drafts' = IF created THEN drafts + 1 ELSE drafts
           /\ memCache' = IF recorded /\ ~redis
                          THEN MemWrite(memCache, key, IdemRecord(invoiceUrl), IDEM_TTL_SEC, now)
                          ELSE memCache
           /\ redisStore' = IF recorded /\ redis
                            THEN RedisWrite(redisStore, key, IdemRecord(invoiceUrl), IDEM_TTL_SEC, now)
                            ELSE redisStore
           /\ req' = [req EXCEPT ![r] =
                         IF ~created THEN Caught(q, userErrors[1])
                         ELSE IF ~IsPresent(invoiceUrl) THEN Caught(q, M_NoInvoiceUrl)
                         ELSE IF HasKey(q.body)
                              THEN [q EXCEPT !.pc = "idemSet", !.invoiceUrl = invoiceUrl, !.setAt = now]
                              ELSE [q EXCEPT !.pc = "done", !.invoiceUrl = invoiceUrl,
                                             !.res = Some(Ok200(invoiceUrl))]]
           /\ hist' = IF recorded
                      THEN (KeyOf(q.body) :> [body |-> q.body, res |-> Ok200(invoiceUrl), at |-> now]) @@ hist
                      ELSE hist
    /\ UNCHANGED << redis, now, debugOnce, served, cachedAt, lb >>

\* await idemSet(...) resumes: res.json({ invoiceUrl })
AfterIdemSet(r) ==
    /\ req[r].pc = "idemSet"
    /\ Runnable(r)
    /\ LET q == req[r]
       IN  req' = [req EXCEPT ![r] = [q EXCEPT !.pc = "done", !.res = Some(Ok200(q.invoiceUrl))]]
    /\ UNCHANGED << redis, now, memCache, redisStore, debugOnce, served, drafts, cachedAt, hist, lb >>

\* Time passes
Tick ==
    /\ now + TickSec <= MaxNow
    /\ Quiescent
    /\ now' = now + TickSec
    /\ UNCHANGED << redis, memCache, redisStore, debugOnce, req, served, drafts, cachedAt, hist, lb >>

(***************************************************************************)
(* Specification: requests handled one after the other                     *)
(***************************************************************************)
LbIdle == [phase |-> "idle"]

Init ==
    /\ redis \in BOOLEAN
    /\ now = 0
    /\ memCache = << >>
    /\ redisStore = << >>
    /\ debugOnce = FALSE
    /\ req = [r \in {"r1"} |-> IdleReq]
    /\ served = 0
    /\ drafts = 0
    /\ cachedAt = << >>
    /\ hist = << >>
    /\ lb = LbIdle

\* What the upstream may answer to the read of `missing`
NodeLists(n) == [1..n -> {Absent} \cup {Some(p) : p \in CatalogPrices}]

\* Upstream failures met while requests are handled one after the other
SomeHttpFailures == { <<429, T_TooMany>>, <<400, T_BadRequest>> }
SomeGraphQLErrorLists == { <<T_Throttled>> }

Next ==
    \/ \E r \in DOMAIN req, body \in Bodies : Receive(r, body)
    \/ \E r \in DOMAIN req : IdemGet(r)
    \/ \E r \in DOMAIN req : CacheGet(r)
    \/ \E r \in DOMAIN req, msg \in TransportMessages : FetchRejects(r, msg)
    \/ \E r \in DOMAIN req, f \in SomeHttpFailures : FetchHttpError(r, f[1], f[2])
    \/ \E r \in DOMAIN req, errors \in SomeGraphQLErrorLists : FetchGraphQLErrors(r, errors)
    \/ \E r \in DOMAIN req : Backoff(r)
    \/ \E r \in DOMAIN req : \E nodes \in NodeLists(Len(req[r].missing)) : FetchReadOk(r, nodes)
    \/ \E r \in DOMAIN req, ue \in UserErrorLists, hasUrl \in BOOLEAN : FetchWriteOk(r, ue, hasUrl)
    \/ \E r \in DOMAIN req : AfterIdemSet(r)
    \/ Tick

Spec == Init /\ [][Next]_vars


(***************************************************************************)
(* Specification: one adminGQL call after the other, against an upstream   *)
(* that fails in every way the client tells apart                          *)
(***************************************************************************)
RetryBodies == { Body(Some(<<It1>>), Absent, Absent, Absent) }

NextRetry ==
    \/ \E r \in DOMAIN req, body \in RetryBodies : Receive(r, body)
    \/ \E r \in DOMAIN req : CacheGet(r)
    \/ \E r \in DOMAIN req, msg \in TransportMessages : FetchRejects(r, msg)
    \/ \E r \in DOMAIN req, f \in HttpFailures : FetchHttpError(r, f[1], f[2])
    \/ \E r \in DOMAIN req, errors \in GraphQLErrorLists : FetchGraphQLErrors(r, errors)
    \/ \E r \in DOMAIN req : Backoff(r)
    \/ \E r \in DOMAIN req : \E nodes \in NodeLists(Len(req[r].missing)) : FetchReadOk(r, nodes)
    \/ \E r \in DOMAIN req, ue \in UserErrorLists, hasUrl \in BOOLEAN : FetchWriteOk(r, ue, hasUrl)

SpecRetry == Init /\ [][NextRetry]_vars

(***************************************************************************)
(* Specification: the normalisation and the line item builder applied to   *)
(* one order line, over a wide set of lines and base prices                *)
(***************************************************************************)
K_fabric == <<"f","a","b","r","i","c">>

LineVariantIds == { <<"7">>, <<GidScheme, GidPath, "7">> }
LineQuantities == { Absent, Some(-30), Some(0), Some(27) }
LineGrades == { Absent, Some("b"), Some("E"), Some("F"), Some("Z") }
LineFabricNames == { Absent, Some(""), Some("Linen") }
LineProperties ==
    { Absent,
      Some(<< [key |-> K_Color, value |-> "Navy"] >>),
      Some(<< [key |-> K_fabric, value |-> "Linen"] >>),
      Some(<< [key |-> K_Color, value |-> "Navy"], [key |-> K_SelectedFabricName, value |-> "Linen"] >>) }
\* unitPriceCents, in tenths of a cent
LineClientPrices == { Absent, Some(-500), Some(0), Some(4), Some(24996), Some(25000), Some(25004), Some(600000) }
\* base price of the line's variant, in mills
LineBasePrices == { 0, 25000, 50000 }

LineItems ==
    [ variantId : LineVariantIds, quantity : LineQuantities, grade : LineGrades,
      cording : BOOLEAN, fabricName : LineFabricNames, properties : LineProperties,
      unitPriceCents : LineClientPrices ]

InitLines ==
    /\ redis = FALSE
    /\ now = 0
    /\ memCache = << >>
    /\ redisStore = << >>
    /\ debugOnce = FALSE
    /\ req = [r \in {"r1"} |-> IdleReq]
    /\ served = 0
    /\ drafts = 0
    /\ cachedAt = << >>
    /\ hist = << >>
    /\ \E it \in LineItems, p \in LineBasePrices :
          lb = [phase |-> "item", item |-> it, fPrice |-> p]

\* lines = items.map(it => ({ ... })) on the one item
LbNormalize ==
    /\ lb.phase = "item"
    /\ lb' = [phase |-> "line", item |-> lb.item, fPrice |-> lb.fPrice, line |-> NormalizeLine(lb.item)]
    /\ UNCHANGED << redis, now, memCache, redisStore, debugOnce, req, served, drafts, cachedAt, hist >>

\* lineItems = lines.map(l => { ... }) on the one line, priceMap holding its price
LbBuild ==
    /\ lb.phase = "line"
    /\ lb' = [phase |-> "built", item |-> lb.item, fPrice |-> lb.fPrice, line |-> lb.line,
              unit |-> UnitOf(lb.line, PriceOf((lb.line.gid :> lb.fPrice), lb.line.gid)),
              out |-> BuildLineItem(lb.line, (lb.line.gid :> lb.fPrice))]
    /\ UNCHANGED << redis, now, memCache, redisStore, debugOnce, req, served, drafts, cachedAt, hist >>

NextLines == LbNormalize \/ LbBuild

SpecLines == InitLines /\ [][NextLines]_vars


(***************************************************************************)
(* Specification: two requests handled concurrently                        *)
(***************************************************************************)
PairBodies ==
    { Body(Some(<<It1>>), Absent, Absent, Some("k1")),
      WithPrevDraft(Body(Some(<<It1, It2>>), Absent, Absent, Some("k1")), "D1") }

InitPair ==
    /\ redis \in BOOLEAN
    /\ now = 0
    /\ memCache = << >>
    /\ redisStore = << >>
    /\ debugOnce = FALSE
    /\ req = [r \in {"r1", "r2"} |-> IdleReq]
    /\ served = 0
    /\ drafts = 0
    /\ cachedAt = << >>
    /\ hist = << >>
    /\ lb = LbIdle

\* Each handler takes one request; the upstream answers every call; time passes
NextPair ==
    \/ \E r \in DOMAIN req, body \in PairBodies : req[r].pc = "idle" /\ Receive(r, body)
    \/ \E r \in DOMAIN req : IdemGet(r)
    \/ \E r \in DOMAIN req : CacheGet(r)
    \/ \E r \in DOMAIN req : \E nodes \in NodeLists(Len(req[r].missing)) : FetchReadOk(r, nodes)
    \/ \E r \in DOMAIN req, ue \in UserErrorLists, hasUrl \in BOOLEAN : FetchWriteOk(r, ue, hasUrl)
    \/ \E r \in DOMAIN req : AfterIdemSet(r)
    \/ Tick

SpecPair == InitPair /\ [][NextPair]_vars


(***************************************************************************)
(* Specification: the pricing engine and the builder applied to one line,  *)
(* over every base price of a range and every grade                        *)
(***************************************************************************)
\* Base prices in mills: every whole cent up to MaxPriceCents, and some larger ones
MaxPriceCents == 100
PriceBasePrices == {10 * c : c \in 0..MaxPriceCents} \cup {25000, 50000, 900000}
PriceGrades == { Absent, Some("a"), Some("B"), Some("C"), Some("d"), Some("E"), Some("F"), Some("Z") }
PriceClientPrices == { Absent, Some(0), Some(600000) }

PriceItems ==
    [ variantId : {<<"7">>}, quantity : {Absent}, grade : PriceGrades,
      cording : BOOLEAN, fabricName : {Absent, Some("Linen")}, properties : {Absent},
      unitPriceCents : PriceClientPrices ]

InitPrice ==
    /\ redis = FALSE
    /\ now = 0
    /\ memCache = << >>
    /\ redisStore = << >>
    /\ debugOnce = FALSE
    /\ req = [r \in {"r1"} |-> IdleReq]
    /\ served = 0
    /\ drafts = 0
    /\ cachedAt = << >>
    /\ hist = << >>
    /\ \E it \in PriceItems, p \in PriceBasePrices :
          lb = [phase |-> "item", item |-> it, fPrice |-> p]

SpecPrice == InitPrice /\ [][NextLines]_vars


(***************************************************************************)
(* Properties of the upstream client (checked under SpecRetry)             *)
(***************************************************************************)
\* Attempts of the current adminGQL call whose fetch was sent
AttemptsMade(q) == q.attempts + (IF q.pc = "fetch" THEN 1 ELSE 0)

\* The current adminGQL call has thrown
CallFailed(q) == q.pc = "done" /\ IsPresent(q.thrown)

\* C4: a single adminGQL call never makes more than 3 attempts; a call whose every
\* attempt was answered 429 goes on until 3 attempts were made and then fails with
\* the rate-limit error of the last attempt, which the route reports.
C4_RetryExhaustion ==
    \A r \in DOMAIN req :
        LET q == req[r]
        IN  /\ AttemptsMade(q) <= 3
            /\ (q.attempts >= 1 /\ q.all429) =>
                  /\ q.pc \in {"backoff", "fetch", "done"}
                  /\ q.lastErr = Some(Err429)
                  /\ q.pc = "done" =>
                        /\ q.attempts = 3
                        /\ q.thrown = Some(Err429)
                        /\ q.res = Some(Err400(M_429RateLimited))

\* C4 witness: a call answered 429 three times has failed
C4_Witness ==
    \E r \in DOMAIN req :
        req[r].pc = "done" /\ req[r].all429 /\ req[r].attempts = 3 /\ req[r].thrown = Some(Err429)

\* The last attempt was answered with a status that is not ok, not 429 and not 5xx
NonRetryableStatus(q) ==
    /\ IsPresent(q.answer)
    /\ q.answer[1].kind = "http"
    /\ q.answer[1].status # 429
    /\ q.answer[1].status < 500

\* C5: an attempt answered with a non-retryable status ends the adminGQL call at
\* once with that error: no backoff, no further attempt (and one attempt in all when
\* it was the first).
C5_NonRetryableFailsAtOnce ==
    \A r \in DOMAIN req :
        NonRetryableStatus(req[r]) =>
            /\ req[r].pc = "done"
            /\ req[r].thrown = req[r].lastErr

\* C6: an ok status with an application-level error list ends the adminGQL call at
\* once, whatever the messages say, with an error carrying the first message.
C6_GraphQLErrorsNotRetried ==
    \A r \in DOMAIN req :
        (IsPresent(req[r].answer) /\ req[r].answer[1].kind = "graphql") =>
            /\ req[r].lastErr = Some(Err(req[r].answer[1].errors[1], FALSE))
            /\ req[r].pc = "done"
            /\ req[r].thrown = req[r].lastErr


(***************************************************************************)
(* Properties of the request handler (checked under Spec)                  *)
(***************************************************************************)
\* The elements of a sequence
Range(s) == {s[j] : j \in 1..Len(s)}

\* getVariantPricesBatch is past its lookup loop
LookupsDone(q) == Len(q.uniq) > 0 /\ q.pc # "cacheGet"

\* C1: a request that follows, within the TTL, a successful request with the same
\* idempotency key and the same body answers what that request answered and sends
\* no draft order mutation.
C1_Idempotence ==
    \A r \in DOMAIN req :
        (req[r].pc = "done" /\ IsPresent(req[r].prior)) =>
            /\ req[r].res = Some(req[r].prior[1])
            /\ req[r].nWrites = 0

\* C1 witness: such a second request has answered, and a draft was created before
C1_Witness ==
    \E r \in DOMAIN req :
        /\ req[r].pc = "done" /\ IsPresent(req[r].prior)
        /\ req[r].res = Some(req[r].prior[1])
        /\ req[r].res[1].status = 200
        /\ served >= 2 /\ drafts = 1

\* C2: one run of getVariantPricesBatch calls the upstream for prices once when some
\* deduplicated reference is not cached, however many are missing or repeated, and
\* not at all when every reference is cached.
C2_OneBatchedRead ==
    \A r \in DOMAIN req :
        /\ req[r].nReads <= 1
        /\ LookupsDone(req[r]) =>
              /\ req[r].nReads = IF \E g \in Range(req[r].uniq) : g \notin DOMAIN req[r].prices
                                    \/ g \in Range(req[r].missing)
                                 THEN 1 ELSE 0
              /\ req[r].nReads = 1 => Range(req[r].query) = Range(req[r].missing)

\* C2 witness: three lines, two distinct references, both missing, one read
C2_Witness ==
    \E r \in DOMAIN req :
        /\ LookupsDone(req[r])
        /\ Len(req[r].lines) = 3 /\ Len(req[r].uniq) = 2 /\ Len(req[r].missing) = 2
        /\ req[r].nReads = 1 /\ req[r].call = "write"

\* C3: a reference cached less than the TTL before its lookup is served from the
\* cache and is not in the read; one cached more than the TTL before is read again.
C3_CacheRoundTrip ==
    \A r \in DOMAIN req : \A g \in DOMAIN req[r].age :
        LET q == req[r] IN
        /\ (0 <= q.age[g] /\ q.age[g] < PRICE_TTL_SEC) =>
              /\ g \in DOMAIN q.prices
              /\ g \notin Range(q.missing) /\ g \notin Range(q.query)
        /\ q.age[g] > PRICE_TTL_SEC =>
              /\ g \in Range(q.missing)
              /\ LookupsDone(q) => (q.nReads = 1 /\ g \in Range(q.query))

\* C3 witness: in one request, a reference served from the cache within the TTL and
\* another read again after it
C3_Witness ==
    \E r \in DOMAIN req : \E g, h \in DOMAIN req[r].age :
        LET q == req[r] IN
        /\ 0 <= q.age[g] /\ q.age[g] < PRICE_TTL_SEC /\ g \in DOMAIN q.prices
        /\ q.age[h] > PRICE_TTL_SEC /\ q.query = <<h>> /\ q.nReads = 1
        /\ q.call = "write"

\* A node the read's response lacks
NodeAbsent(q, j) == IsPresent(q.nodes) /\ j \in 1..Len(q.nodes[1]) /\ ~IsPresent(q.nodes[1][j])

\* C7: when getVariantPricesBatch returns, the map has a price for every reference
\* asked for; when the read's response lacks a reference, the request fails with
\* the not-found error that names a missing reference, and no map is returned.
C7_AllOrFail ==
    \A r \in DOMAIN req :
        LET q == req[r] IN
        /\ q.call = "write" => \A g \in Range(q.uniq) : g \in DOMAIN q.prices
        /\ (\E j \in 1..Len(q.missing) : NodeAbsent(q, j)) =>
              /\ q.pc = "done" /\ q.call = "read" /\ q.nWrites = 0
              /\ \E j \in 1..Len(q.missing) :
                    /\ NodeAbsent(q, j)
                    /\ q.res = Some(Err400(M_VariantNotFound(q.missing[j])))

\* C7 witness: the response has the first of two references and lacks the second
C7_Witness ==
    \E r \in DOMAIN req :
        /\ Len(req[r].missing) = 2
        /\ ~NodeAbsent(req[r], 1) /\ NodeAbsent(req[r], 2)
        /\ req[r].res = Some(Err400(M_VariantNotFound(req[r].missing[2])))

\* C13: a request without lines (the list empty or absent) is answered with an
\* error and causes no upstream call, also when its key has a result recorded.
C13_EmptyRejected ==
    \A r \in DOMAIN req :
        (req[r].pc # "idle" /\ Len(ItemsOf(req[r].body)) = 0) =>
            /\ req[r].pc = "done"
            /\ req[r].res = Some(Err400(M_NoItems))
            /\ req[r].nReads = 0 /\ req[r].nWrites = 0
            /\ req[r].call = "none" /\ req[r].attempts = 0 /\ ~IsPresent(req[r].answer)

\* C13 witness: a request without lines is rejected while its key has a result
\* recorded that the store still returns
C13_Witness ==
    \E r \in DOMAIN req :
        /\ req[r].pc = "done" /\ Len(ItemsOf(req[r].body)) = 0 /\ HasKey(req[r].body)
        /\ req[r].res = Some(Err400(M_NoItems))
        /\ IsPresent(idemGet(KeyOf(req[r].body)))

\* The request ends in this step
Ends(r) == req[r].pc # "done" /\ req'[r].pc = "done"

\* C15: a failure ends the request with an error response. While the prices are
\* resolved it ends it before any mutation is sent; a mutation answered with user
\* errors or without invoiceUrl ends it with an error, never with a success.
C15_FailuresTerminal ==
    [][ \A r \in DOMAIN req :
          /\ (Ends(r) /\ req[r].call = "read") =>
                /\ req'[r].res[1].status = 400
                /\ req'[r].nWrites = 0 /\ drafts' = drafts
          /\ (req[r].call = "read" /\ req[r].pc = "fetch" /\ req'[r].call = "write") =>
                /\ IsPresent(req'[r].nodes)
                /\ \A j \in 1..Len(req'[r].nodes[1]) : IsPresent(req'[r].nodes[1][j])
          /\ \A ue \in UserErrorLists, hasUrl \in BOOLEAN :
                (FetchWriteOk(r, ue, hasUrl) /\ (Len(ue) > 0 \/ ~hasUrl)) =>
                    /\ req'[r].pc = "done"
                    /\ req'[r].res[1].status = 400
                    /\ req'[r].res[1].body.error = (IF Len(ue) > 0 THEN ue[1] ELSE M_NoInvoiceUrl)
      ]_vars

\* C15 witness: the mutation created a draft and returned no invoiceUrl, and the
\* request has ended with the error
C15_Witness ==
    \E r \in DOMAIN req :
        /\ req[r].pc = "done" /\ req[r].call = "write"
        /\ IsPresent(req[r].answer) /\ req[r].answer[1].kind = "ok"
        /\ req[r].res = Some(Err400(M_NoInvoiceUrl))
        /\ drafts >= 1

\* The process-local map holds an entry for the key whose exp has passed
HoldsExpired(key) == key \in DOMAIN memCache /\ memCache[key].exp < now

\* C16: a read of the process-local map for a key whose entry has expired returns
\* absent and removes the entry: once a lookup has found a reference expired, the
\* map holds no expired entry for it.
C16_LazyPurge ==
    \A r \in DOMAIN req : \A g \in DOMAIN req[r].age :
        (~redis /\ req[r].age[g] > PRICE_TTL_SEC) =>
            /\ g \in Range(req[r].missing)
            /\ ~HoldsExpired(VKey(g))

\* The idempotency records of a store
IdemPart(store) == [key \in {k \in DOMAIN store : k[1] = "idem:"} |-> store[key]]

\* The idempotency store of the backend in use
IdemStore == IdemPart(IF redis THEN redisStore ELSE memCache)

\* In this step request r gets, from a mutation without user errors, the invoice
\* of a draft created in the step
WriteSucceeds(r) ==
    /\ req[r].call = "write" /\ req[r].pc = "fetch"
    /\ drafts' = drafts + 1
    /\ req'[r].invoiceUrl = Some(drafts')
    /\ req'[r].pc \in {"idemSet", "done"}

\* C19: the idempotency store holds a record under key k only if a request with
\* key k got, from a mutation without user errors, a non-empty invoice reference,
\* and the record holds that reference; a request that fails leaves the store as
\* it is.
C19_RecordsOnlySuccesses ==
    /\ [] /\ \A key \in DOMAIN IdemStore :
                /\ IsPresent(IdemStore[key].value.invoiceUrl)
                /\ IdemStore[key].value.invoiceUrl[1] \in 1..drafts
          /\ IdemPart(IF redis THEN memCache ELSE redisStore) = << >>
    /\ [][ /\ IdemStore' # IdemStore =>
                \E r \in DOMAIN req :
                    /\ WriteSucceeds(r) /\ HasKey(req[r].body)
                    /\ IdemStore' = (IdemKey(KeyOf(req[r].body)) :>
                                        [value |-> [invoiceUrl |-> req'[r].invoiceUrl],
                                         exp |-> now + IDEM_TTL_SEC]) @@ IdemStore
           /\ \A r \in DOMAIN req :
                 (Ends(r) /\ req'[r].res[1].status = 400) => IdemStore' = IdemStore
       ]_vars

\* C19 witness: the store holds the record of a draft under a key, and a later
\* request with that key has failed at the mutation
C19_Witness ==
    \E r \in DOMAIN req :
        /\ req[r].pc = "done" /\ HasKey(req[r].body)
        /\ req[r].call = "write" /\ req[r].res[1].status = 400
        /\ IdemKey(KeyOf(req[r].body)) \in DOMAIN IdemStore
        /\ IdemStore[IdemKey(KeyOf(req[r].body))].value.invoiceUrl = Some(1)

\* C20: a request with lines whose key has an unexpired result recorded answers
\* that result and makes no upstream call, whatever its items, note and tags are.
C20_LookupByKeyAlone ==
    \A r \in DOMAIN req :
        (Len(ItemsOf(req[r].body)) > 0 /\ IsPresent(req[r].recorded)) =>
            /\ req[r].pc = "done"
            /\ req[r].res = Some(req[r].recorded[1])
            /\ req[r].nReads = 0 /\ req[r].nWrites = 0
            /\ req[r].call = "none" /\ req[r].attempts = 0

\* C20 witness: the result was recorded by a request with other items, note and tags
C20_Witness ==
    \E r \in DOMAIN req :
        /\ req[r].pc = "done" /\ IsPresent(req[r].recorded)
        /\ req[r].res = Some(req[r].recorded[1])
        /\ LET h == hist[KeyOf(req[r].body)]
           IN  /\ h.body.items # req[r].body.items
               /\ h.body.note # req[r].body.note
               /\ h.body.tags # req[r].body.tags

(***************************************************************************)
(* Properties of the line item builder (checked under SpecLines)           *)
(***************************************************************************)
Built == lb.phase = "built"

\* x is a whole number of cents and the nearest one to y (both in mills)
NearestCent(x, y) == x % 10 = 0 /\ 2 * (x - y) <= 10 /\ 2 * (y - x) <= 10

\* The descriptive attributes, then the passthrough ones
CarriesAttributes ==
    /\ Len(lb.out.customAttributes) = 3 + Len(lb.line.properties)
    /\ lb.out.customAttributes[1] = [key |-> K_Fabric, value |-> lb.line.fabricName]

\* C8 as claimed: a line with finalPrice <= basePrice is a catalog-reference line
\* whose discount equals basePrice - finalPrice exactly (none when that is zero).
C8_Claimed ==
    (Built /\ lb.unit <= lb.fPrice) =>
        /\ "variantId" \in DOMAIN lb.out /\ lb.out.variantId = lb.line.gid
        /\ lb.out.quantity = lb.line.quantity
        /\ "custom" \notin DOMAIN lb.out
        /\ IF lb.fPrice - lb.unit = 0 THEN lb.out.appliedDiscount = Absent
           ELSE /\ IsPresent(lb.out.appliedDiscount)
                /\ lb.out.appliedDiscount[1].valueType = "FIXED_AMOUNT"
                /\ lb.out.appliedDiscount[1].value = lb.fPrice - lb.unit

\* C8, amended: a line with finalPrice <= basePrice is a catalog-reference line with
\* the quantity, not a custom line, whose fixed-amount discount is basePrice -
\* finalPrice rounded to whole cents; it has no discount when the difference is zero.
C8_DiscountBranch ==
    (Built /\ lb.unit <= lb.fPrice) =>
        /\ "variantId" \in DOMAIN lb.out /\ lb.out.variantId = lb.line.gid
        /\ lb.out.quantity = lb.line.quantity
        /\ "custom" \notin DOMAIN lb.out /\ "originalUnitPrice" \notin DOMAIN lb.out
        /\ IF lb.fPrice - lb.unit = 0 THEN lb.out.appliedDiscount = Absent
           ELSE /\ IsPresent(lb.out.appliedDiscount)
                /\ lb.out.appliedDiscount[1].valueType = "FIXED_AMOUNT"
                /\ NearestCent(lb.out.appliedDiscount[1].value, lb.fPrice - lb.unit)

\* C8 witness: a discounted line whose difference is not a whole number of cents
C8_Witness ==
    /\ Built /\ lb.unit < lb.fPrice
    /\ IsPresent(lb.out.appliedDiscount)
    /\ (lb.fPrice - lb.unit) % 10 # 0
    /\ lb.out.appliedDiscount[1].value > 0

\* C9 as claimed: a line with finalPrice > basePrice is a custom line without
\* catalog reference whose originalUnitPrice equals finalPrice exactly.
C9_Claimed ==
    (Built /\ lb.unit > lb.fPrice) =>
        /\ "variantId" \notin DOMAIN lb.out
        /\ lb.out.custom = TRUE
        /\ lb.out.originalUnitPrice = lb.unit
        /\ lb.out.quantity = lb.line.quantity
        /\ lb.line.fabricName # "" => lb.out.title = lb.line.fabricName

\* C9, amended: a line with finalPrice > basePrice is a custom line without catalog
\* reference, with custom = true, the label (when there is one) and the quantity,
\* whose originalUnitPrice is finalPrice rounded to whole cents.
C9_CustomBranch ==
    (Built /\ lb.unit > lb.fPrice) =>
        /\ "variantId" \notin DOMAIN lb.out /\ "appliedDiscount" \notin DOMAIN lb.out
        /\ lb.out.custom = TRUE
        /\ NearestCent(lb.out.originalUnitPrice, lb.unit)
        /\ lb.out.quantity = lb.line.quantity
        /\ lb.line.fabricName # "" => lb.out.title = lb.line.fabricName
        /\ CarriesAttributes

\* C9 witness: a custom line whose price has a fraction of a cent
C9_Witness ==
    /\ Built /\ lb.unit > lb.fPrice /\ lb.unit % 10 # 0
    /\ lb.out.custom = TRUE /\ lb.line.fabricName # ""

\* The client asserted a price, and it is positive
ClientPricePositive == IsPresent(lb.item.unitPriceCents) /\ lb.item.unitPriceCents[1] > 0

\* The price of the pricing engine for the line
ComputedPrice == computeUnitPriceFromF(lb.fPrice, lb.line.grade, lb.line.cording)

\* The line has a label
HasLabel == IsPresent(lb.item.fabricName) /\ lb.item.fabricName[1] # ""

\* The line's attributes, as the request gave them
ItemProperties == IF IsPresent(lb.item.properties) THEN lb.item.properties[1] ELSE << >>

\* C10 as claimed: finalPrice is the client's price when the line has a label or an
\* attribute whose key is Fabric or Selected Fabric Name (as written) and the client's
\* price is present and positive; the computed price in every other case.
C10_Claimed ==
    Built =>
        lb.unit = IF /\ \/ HasLabel
                        \/ \E i \in 1..Len(ItemProperties) :
                              ItemProperties[i].key \in {K_Fabric, K_SelectedFabricName}
                     /\ ClientPricePositive
                  THEN lb.item.unitPriceCents[1]
                  ELSE ComputedPrice

\* C10, amended: the same, the attribute key compared without regard to case.
C10_FinalPrice ==
    Built =>
        lb.unit = IF /\ \/ HasLabel
                        \/ \E i \in 1..Len(ItemProperties) :
                              ToLowerCase(ItemProperties[i].key)
                                 \in {ToLowerCase(K_Fabric), ToLowerCase(K_SelectedFabricName)}
                     /\ ClientPricePositive
                  THEN lb.item.unitPriceCents[1]
                  ELSE ComputedPrice

\* C10 witness: the client's price is taken for a line that has no label, only an
\* attribute with the key in lower case
C10_Witness ==
    /\ Built /\ ~HasLabel /\ ClientPricePositive
    /\ \E i \in 1..Len(ItemProperties) : ItemProperties[i].key = K_fabric
    /\ lb.unit = lb.item.unitPriceCents[1]
    /\ lb.unit # ComputedPrice

(***************************************************************************)
(* Properties of the pricing engine (checked under SpecPrice)              *)
(***************************************************************************)
\* The grades of the upcharge table, in its order
GradeOrder == <<"A", "B", "C", "D", "E", "F">>

\* The client's price is the one the line is sold at
UsableClientPrice ==
    /\ ClientPricePositive
    /\ \/ HasLabel
       \/ \E i \in 1..Len(ItemProperties) :
             ToLowerCase(ItemProperties[i].key)
                \in {ToLowerCase(K_Fabric), ToLowerCase(K_SelectedFabricName)}

\* C11: for a fixed base price and corded flag the computed price is the same on
\* every call with the same arguments, and it does not decrease along the grade
\* order A, B, C, D, E, F.
C11_MonotoneInGrade ==
    (Built /\ ~UsableClientPrice) =>
        /\ lb.unit = computeUnitPriceFromF(lb.fPrice, lb.line.grade, lb.line.cording)
        /\ \A i \in 1..Len(GradeOrder) :
              lb.line.grade = GradeOrder[i] =>
                 /\ \A j \in i..Len(GradeOrder) :
                       lb.unit <= computeUnitPriceFromF(lb.fPrice, GradeOrder[j], lb.line.cording)
                 /\ \A j \in 1..i :
                       computeUnitPriceFromF(lb.fPrice, GradeOrder[j], lb.line.cording) <= lb.unit

\* C11 witness: a corded line of grade D priced strictly between grades C and E
C11_Witness ==
    /\ Built /\ ~UsableClientPrice
    /\ lb.line.grade = "D" /\ lb.line.cording /\ lb.fPrice = 1000
    /\ computeUnitPriceFromF(lb.fPrice, "C", TRUE) < lb.unit
    /\ lb.unit < computeUnitPriceFromF(lb.fPrice, "E", TRUE)

\* C18: without a usable client price and with a base price that is not negative,
\* the price exceeds the base price only for a corded line of grade F; every other
\* line is emitted with its catalog reference and is not a custom line.
C18_OnlyCordedFExceeds ==
    (Built /\ ~UsableClientPrice /\ lb.fPrice >= 0) =>
        /\ lb.unit > lb.fPrice => (lb.line.grade = "F" /\ lb.line.cording)
        /\ ~(lb.line.grade = "F" /\ lb.line.cording) =>
              /\ lb.unit <= lb.fPrice
              /\ "variantId" \in DOMAIN lb.out /\ lb.out.variantId = lb.line.gid
              /\ "custom" \notin DOMAIN lb.out

\* C18 witness: an uncorded line of grade F is sold at the base price, with its
\* catalog reference and no discount; the same line corded would exceed it
C18_Witness ==
    /\ Built /\ ~UsableClientPrice
    /\ lb.line.grade = "F" /\ ~lb.line.cording /\ lb.fPrice = 900000
    /\ lb.unit = lb.fPrice
    /\ "variantId" \in DOMAIN lb.out /\ lb.out.appliedDiscount = Absent
    /\ computeUnitPriceFromF(lb.fPrice, "F", TRUE) > lb.fPrice

(***************************************************************************)
(* Properties of concurrent requests (checked under SpecPair)              *)
(***************************************************************************)
\* The request names a prior draft
HasPrevDraft(body) == IsPresent(body.prevDraftId)

\* C12: a request that supplies prevDraftId sends an update of that draft and creates
\* no draft; a request without one sends a create.
C12_UpsertByPriorDraft ==
    \A r \in DOMAIN req :
        /\ req[r].call = "write" =>
              Mutation = IF HasPrevDraft(req[r].body) THEN "draftOrderUpdate" ELSE "draftOrderCreate"
        /\ (\A x \in DOMAIN req : req[x].pc # "idle" => HasPrevDraft(req[x].body)) => drafts = 0

\* The requests that sent the mutation after a lookup that preceded every record
\* under their key
WroteUnrecorded == {r \in DOMAIN req : req[r].nWrites >= 1 /\ ~IsPresent(req[r].recorded)}

\* C14: two requests with the same key can both pass the idempotency lookup before
\* either records a result and both create a draft (the witness); a request whose
\* lookup follows a record under its key sends no mutation, so drafts are created
\* only by requests whose lookup preceded every record.
C14_DuplicateWriteWindow ==
    /\ \A r \in DOMAIN req : IsPresent(req[r].recorded) => req[r].nWrites = 0
    /\ drafts <= Cardinality(WroteUnrecorded)

\* C14 witness: two requests with the same body and key have both answered 200,
\* with different invoices, and two drafts exist
C14_Witness ==
    /\ req["r1"].body = req["r2"].body /\ HasKey(req["r1"].body)
    /\ \A r \in DOMAIN req :
          /\ req[r].pc = "done" /\ req[r].res[1].status = 200
          /\ ~IsPresent(req[r].recorded) /\ req[r].nWrites = 1
    /\ req["r1"].res # req["r2"].res
    /\ drafts = 2

\* The store cacheSet writes to
PriceStore == IF redis THEN redisStore ELSE memCache

\* getVariantPricesBatch has returned to this request after a read
ReturnedAfterRead(q) == q.call = "write" /\ q.nReads = 1

====
